---- MODULE Spec2Model ----
(***************************************************************************)
(* A model of multihash.py: the codec table built at import, the           *)
(* identifier resolvers, the envelope codec and the streaming encoder.     *)
(*                                                                         *)
(* Python values are tagged records [kind, v].  A str is a tuple of        *)
(* one-character strings, bytes are a tuple of integers 0..255.  A call    *)
(* returns [exc, val]: exc = "none" and the value, or the exception class  *)
(* and its message.                                                        *)
(***************************************************************************)
EXTENDS Integers, Sequences, FiniteSets, TLC

VARIABLES CODECS, pc, op, args, ret, resource, updates, warnings

vars == <<CODECS, pc, op, args, ret, resource, updates, warnings>>

(* ------------------------------ bounds --------------------------------- *)

\* longest bytes / text content, and longest stream payload
MaxContentLen == 3
\* most chunks a lazy sequence yields
MaxChunks == 3
\* longest precalculated digest handed to encode_multihash
MaxDigestLen == 129
\* longest buffer handed to decode
MaxBufLen == 131
\* bytes asked of the stream per read: stands for the 1048576 of
\* content.read(1048576), scaled to the payloads above
READ_SIZE == 2

(* --------------------------- program constants ------------------------- *)

MIN_BUF_LEN == 3
MAX_BUF_LEN == 129
MAX_DIGEST_LEN == 127
APP_CODE_LIMIT == 16

(* ------------------------------ values --------------------------------- *)

IntV(n) == [kind |-> "int", v |-> n]
StrV(s) == [kind |-> "str", v |-> s]
BytesV(b) == [kind |-> "bytes", v |-> b]
BoolV(b) == [kind |-> "bool", v |-> b]
CallableV(f) == [kind |-> "callable", v |-> f]
HashV(f, h) == [kind |-> "hash", v |-> <<f, h>>]
TupleV(code, digest) == [kind |-> "tuple", v |-> <<code, digest>>]
NoneV == [kind |-> "NoneType", v |-> 0]

Ok(val) == [exc |-> "none", val |-> val]
Raise(exc, msg) == [exc |-> exc, val |-> StrV(msg)]

(* ------------------------------ str ------------------------------------ *)

DIGITS == <<"0", "1", "2", "3", "4", "5", "6", "7", "8", "9">>

\* str.isdigit(): non-empty and every character a digit
isdigit(s) == Len(s) > 0 /\ \A i \in 1..Len(s) : \E d \in 1..10 : DIGITS[d] = s[i]

digit_value(c) == (CHOOSE d \in 1..10 : DIGITS[d] = c) - 1

\* int(s) of a digit-only str
RECURSIVE int(_)
int(s) == IF Len(s) = 0 THEN 0
          ELSE 10 * int(SubSeq(s, 1, Len(s) - 1)) + digit_value(s[Len(s)])

\* ord() of the characters text content is drawn from: "a", and "e'" and
\* "EUR" standing for U+00E9 and U+20AC
ord(c) == CASE c = "a" -> 97
            [] c = "e'" -> 233
            [] c = "EUR" -> 8364

\* one code point's UTF-8 bytes (code points below 0x10000)
utf8_char(cp) ==
    IF cp < 128 THEN <<cp>>
    ELSE IF cp < 2048 THEN <<192 + (cp \div 64), 128 + (cp % 64)>>
    ELSE <<224 + (cp \div 4096), 128 + ((cp \div 64) % 64), 128 + (cp % 64)>>

\* content.encode('utf-8')
RECURSIVE utf8_encode(_)
utf8_encode(s) == IF Len(s) = 0 THEN <<>>
                  ELSE utf8_char(ord(Head(s))) \o utf8_encode(Tail(s))

(* ------------------------------ hashlib -------------------------------- *)

\* digest_size of each hashlib constructor the table names
digest_size(f) == CASE f = "md5" -> 16
                    [] f = "sha1" -> 20
                    [] f = "sha256" -> 32
                    [] f = "sha512" -> 64
                    [] f = "sha3_224" -> 28
                    [] f = "sha3_256" -> 32
                    [] f = "sha3_384" -> 48
                    [] f = "sha3_512" -> 64
                    [] f = "blake2b" -> 64
                    [] f = "blake2s" -> 32
                    [] OTHER -> 8

\* hash_function(): a fresh hash object, its chaining value set per algorithm
new_hash(f) == HashV(f, digest_size(f))

\* hasher.update(chunk): the chaining value absorbs the chunk byte by byte
RECURSIVE hash_update(_, _)
hash_update(hasher, chunk) ==
    IF Len(chunk) = 0 THEN hasher
    ELSE hash_update(HashV(hasher.v[1], (hasher.v[2] * 31 + Head(chunk) + 1) % 65521),
                     Tail(chunk))

\* hasher.digest(): digest_size bytes drawn from the chaining value
hash_digest(hasher) ==
    [i \in 1..digest_size(hasher.v[1]) |-> (hasher.v[2] * i + i) % 256]

(* ------------------------------ registry ------------------------------- *)

Entry(name, code, function) == [name |-> name, code |-> code, function |-> function]

\* the entries always present (CODECS = [...])
BASE_CODECS == <<
    Entry(<<"m", "d", "5">>, 213, "md5"),
    Entry(<<"s", "h", "a", "1">>, 17, "sha1"),
    Entry(<<"s", "h", "a", "2", "-", "2", "5", "6">>, 18, "sha256"),
    Entry(<<"s", "h", "a", "2", "-", "5", "1", "2">>, 19, "sha512") >>

\* added when hashlib has sha3_512 or the sha3 backport imports
SHA3_CODECS == <<
    Entry(<<"s", "h", "a", "3", "-", "2", "2", "4">>, 23, "sha3_224"),
    Entry(<<"s", "h", "a", "3", "-", "2", "5", "6">>, 22, "sha3_256"),
    Entry(<<"s", "h", "a", "3", "-", "3", "8", "4">>, 21, "sha3_384"),
    Entry(<<"s", "h", "a", "3", "-", "5", "1", "2">>, 20, "sha3_512") >>

\* added when hashlib has blake2b or pyblake2 imports (0xb208, 0xb244)
BLAKE2_CODECS == <<
    Entry(<<"b", "l", "a", "k", "e", "2", "b", "-", "6", "4">>, 45576, "blake2b"),
    Entry(<<"b", "l", "a", "k", "e", "2", "s", "-", "3", "2">>, 45636, "blake2s") >>

\* the table after the two guarded CODECS.extend() calls
build_codecs(has_sha3, has_blake2) ==
    BASE_CODECS \o (IF has_sha3 THEN SHA3_CODECS ELSE <<>>)
                \o (IF has_blake2 THEN BLAKE2_CODECS ELSE <<>>)

\* a dict comprehension over the table keeps, for a key met twice, the later entry
last_with_name(n) ==
    CHOOSE i \in DOMAIN CODECS :
        CODECS[i].name = n /\ \A j \in DOMAIN CODECS : j > i => CODECS[j].name # n

last_with_code(c) ==
    CHOOSE i \in DOMAIN CODECS :
        CODECS[i].code = c /\ \A j \in DOMAIN CODECS : j > i => CODECS[j].code # c

CODECS_BY_NAME ==
    [n \in {CODECS[i].name : i \in DOMAIN CODECS} |-> CODECS[last_with_name(n)].function]

CODECS_BY_CODE ==
    [c \in {CODECS[i].code : i \in DOMAIN CODECS} |-> CODECS[last_with_code(c)].function]

CODES_BY_NAME ==
    [n \in {CODECS[i].name : i \in DOMAIN CODECS} |-> CODECS[last_with_name(n)].code]

SHA3 == <<"s", "h", "a", "3">>
SHA3_512 == <<"s", "h", "a", "3", "-", "5", "1", "2">>

(* ------------------------------ resolvers ------------------------------ *)

\* CODECS_BY_CODE[key] / CODECS_BY_NAME[key]: the factory, or KeyError
by_code_item(key) ==
    IF key \in DOMAIN CODECS_BY_CODE THEN Ok(CallableV(CODECS_BY_CODE[key]))
    ELSE Raise("KeyError", "key")

by_name_item(key) ==
    IF key \in DOMAIN CODECS_BY_NAME THEN Ok(CallableV(CODECS_BY_NAME[key]))
    ELSE Raise("KeyError", "key")

get_hash_function(hash_identifier) ==
    IF hash_identifier.kind = "callable" THEN Ok(new_hash(hash_identifier.v))
    ELSE IF hash_identifier.kind = "int" THEN by_code_item(hash_identifier.v)
    ELSE IF hash_identifier.kind = "str" THEN
        IF hash_identifier.v = SHA3 THEN by_name_item(SHA3_512)
        ELSE IF hash_identifier.v \in DOMAIN CODECS_BY_NAME
            THEN by_name_item(hash_identifier.v)
        ELSE IF isdigit(hash_identifier.v) THEN by_code_item(int(hash_identifier.v))
        ELSE Raise("ValueError", "Unknown hash function")
    ELSE Raise("ValueError", "Unknown hash function")

\* the warnings get_hash_function emits on the way
get_hash_function_warnings(hash_identifier) ==
    IF hash_identifier.kind = "str" /\ hash_identifier.v = SHA3
    THEN <<"DeprecationWarning">> ELSE <<>>

is_app_code(code) ==
    IF code.kind = "int" THEN code.v >= 0 /\ code.v < APP_CODE_LIMIT ELSE FALSE

get_code(identifier) ==
    IF identifier.kind = "int" /\ identifier.v \in DOMAIN CODECS_BY_CODE THEN Ok(identifier)
    ELSE IF identifier.kind = "str" /\ identifier.v \in DOMAIN CODES_BY_NAME
        THEN Ok(IntV(CODES_BY_NAME[identifier.v]))
    ELSE IF is_app_code(identifier) THEN Ok(identifier)
    ELSE Raise("ValueError", "is not a recognized codec identifier")

\* the truth value of an int: if get_code(code)
truthy(val) == val.v # 0

is_valid_code(code) ==
    LET r == get_code(code) IN
    IF r.exc # "none" THEN r
    ELSE IF truthy(r.val) THEN Ok(BoolV(TRUE)) ELSE Ok(BoolV(FALSE))

(* ------------------------------ envelope codec ------------------------- *)

\* decode with the codec check of get_code: application-specific codes pass
decode_lenient_code(buf) ==
    IF Len(buf) < MIN_BUF_LEN THEN Raise("ValueError", "Buffer too short")
    ELSE IF Len(buf) > MAX_BUF_LEN THEN Raise("ValueError", "Buffer too long")
    ELSE LET code == buf[1]
             length == buf[2]
             digest == SubSeq(buf, 3, Len(buf))
         IN  IF get_code(IntV(code)).exc # "none" THEN Raise("ValueError", "Invalid code")
             ELSE IF Len(digest) # length THEN Raise("ValueError", "Inconsistent length")
             ELSE Ok(TupleV(code, digest))

\* decode with the ceiling one byte low
decode_short_ceiling(buf) ==
    IF Len(buf) < MIN_BUF_LEN THEN Raise("ValueError", "Buffer too short")
    ELSE IF Len(buf) >= MAX_BUF_LEN THEN Raise("ValueError", "Buffer too long")
    ELSE LET code == buf[1]
             length == buf[2]
             digest == SubSeq(buf, 3, Len(buf))
         IN  IF code \notin DOMAIN CODECS_BY_CODE THEN Raise("ValueError", "Invalid code")
             ELSE IF Len(digest) # length THEN Raise("ValueError", "Inconsistent length")
             ELSE Ok(TupleV(code, digest))

decode(buf) ==
    IF Len(buf) < MIN_BUF_LEN THEN Raise("ValueError", "Buffer too short")
    ELSE IF Len(buf) > MAX_BUF_LEN THEN Raise("ValueError", "Buffer too long")
    ELSE LET code == buf[1]
             length == buf[2]
             digest == SubSeq(buf, 3, Len(buf))
         IN  IF code \notin DOMAIN CODECS_BY_CODE THEN Raise("ValueError", "Invalid code")
             ELSE IF Len(digest) # length THEN Raise("ValueError", "Inconsistent length")
             ELSE Ok(TupleV(code, digest))

\* bytearray(ints): every element must be a byte
bytearray(ints) ==
    IF \A i \in DOMAIN ints : ints[i] >= 0 /\ ints[i] < 256 THEN Ok(BytesV(ints))
    ELSE Raise("ValueError", "byte must be in range(0, 256)")

\* encode_multihash refusing a digest of exactly 127 bytes
encode_multihash_ge(digest, code) ==
    IF Len(digest) >= MAX_DIGEST_LEN
    THEN Raise("ValueError", "multihash does not support digest length > 127")
    ELSE LET output == bytearray(<<code, Len(digest)>>) IN
         IF output.exc # "none" THEN output
         ELSE Ok(BytesV(output.val.v \o digest))

encode_multihash(digest, code) ==
    IF Len(digest) > MAX_DIGEST_LEN
    THEN Raise("ValueError", "multihash does not support digest length > 127")
    ELSE LET output == bytearray(<<code, Len(digest)>>) IN
         IF output.exc # "none" THEN output
         ELSE Ok(BytesV(output.val.v \o digest))

(* ------------------------------ content -------------------------------- *)

StreamV(kind, data, pos) == [kind |-> kind, v |-> [data |-> data, pos |-> pos, closed |-> FALSE]]
IterV(chunks) == [kind |-> "iter", v |-> [chunks |-> chunks, next |-> 1]]

Min(a, b) == IF a < b THEN a ELSE b

\* content.read(size): up to size bytes from the read position, which moves
read(stream, size) ==
    SubSeq(stream.v.data, stream.v.pos + 1, Min(stream.v.pos + size, Len(stream.v.data)))

advance(stream, n) == [stream EXCEPT !.v.pos = @ + n]

\* the read loop breaking on a short chunk before feeding it
RECURSIVE read_loop_short_break(_, _)
read_loop_short_break(stream, ups) ==
    LET chunk == read(stream, READ_SIZE) IN
    IF Len(chunk) < READ_SIZE THEN [resource |-> advance(stream, Len(chunk)), updates |-> ups]
    ELSE read_loop_short_break(advance(stream, Len(chunk)), Append(ups, chunk))

\* while True: chunk = content.read(1048576); break on an empty chunk; update
RECURSIVE read_loop(_, _)
read_loop(stream, ups) ==
    LET chunk == read(stream, READ_SIZE) IN
    IF Len(chunk) = 0 THEN [resource |-> stream, updates |-> ups]
    ELSE read_loop(advance(stream, Len(chunk)), Append(ups, chunk))

\* a file object's next line: through the next newline byte, or to the end
readline(stream) ==
    LET data == stream.v.data
        from == stream.v.pos + 1
        ends == {i \in from..Len(data) : data[i] = 10}
        to == IF ends = {} THEN Len(data)
              ELSE CHOOSE i \in ends : \A j \in ends : i <= j
    IN  SubSeq(data, from, to)

\* for chunk in content, content a file object that is no BufferedReader
RECURSIVE line_loop(_, _)
line_loop(stream, ups) ==
    LET chunk == readline(stream) IN
    IF Len(chunk) = 0 THEN [resource |-> stream, updates |-> ups]
    ELSE line_loop(advance(stream, Len(chunk)), Append(ups, chunk))

\* for chunk in content, content a lazy sequence: every element, empty or not
RECURSIVE iter_loop(_, _)
iter_loop(it, ups) ==
    IF it.v.next > Len(it.v.chunks) THEN [resource |-> it, updates |-> ups]
    ELSE iter_loop([it EXCEPT !.v.next = @ + 1], Append(ups, it.v.chunks[it.v.next]))

\* the isinstance / hasattr chain of encode: what is fed to the hasher
feed(content) ==
    IF content.kind = "bytes"
        THEN [exc |-> "none", resource |-> content, updates |-> <<content.v>>]
    ELSE IF content.kind = "str"
        THEN [exc |-> "none", resource |-> content, updates |-> <<utf8_encode(content.v)>>]
    ELSE IF content.kind = "BufferedReader"
        THEN [exc |-> "none"] @@ read_loop(content, <<>>)
    ELSE IF content.kind = "BytesIO"
        THEN [exc |-> "none"] @@ line_loop(content, <<>>)
    ELSE IF content.kind = "iter"
        THEN [exc |-> "none"] @@ iter_loop(content, <<>>)
    ELSE [exc |-> "TypeError", resource |-> content, updates |-> <<>>]

RECURSIVE update_all(_, _)
update_all(hasher, chunks) ==
    IF Len(chunks) = 0 THEN hasher
    ELSE update_all(hash_update(hasher, Head(chunks)), Tail(chunks))

Outcome(r, res, ups) == [ret |-> r, resource |-> res, updates |-> ups]

encode(content, codec_identifier) ==
    LET code == get_code(codec_identifier) IN
    IF code.exc # "none" THEN Outcome(code, content, <<>>)
    ELSE LET hash_function == get_hash_function(code.val) IN
    IF hash_function.exc # "none" THEN Outcome(hash_function, content, <<>>)
    ELSE LET fed == feed(content) IN
    IF fed.exc # "none"
        THEN Outcome(Raise("TypeError", "is not a supported input type"), fed.resource, <<>>)
    ELSE LET hasher == update_all(new_hash(hash_function.val.v), fed.updates)
             digest == hash_digest(hasher)
         IN  Outcome(encode_multihash(digest, code.val.v), fed.resource, fed.updates)

(* ------------------------------ inputs --------------------------------- *)

IntInputs == {-1, 0, 5, 15, 16, 17, 20, 153, 213, 255, 256, 45576}

StrInputs ==
    {CODECS[i].name : i \in DOMAIN CODECS}
        \cup {SHA3, SHA3_512, <<"1", "7">>, <<"2", "0">>, <<"1", "5", "3">>, <<"5">>,
              <<"s", "h", "a", "-", "n", "o", "n", "e", "x", "i", "s", "t", "e", "n", "t">>,
              <<>>}

CallableInputs == {"sha1", "custom"}

Identifiers ==
    {IntV(n) : n \in IntInputs} \cup {StrV(s) : s \in StrInputs}
        \cup {CallableV(f) : f \in CallableInputs} \cup {NoneV}

\* the identifiers encode is called with
CodecInputs ==
    {StrV(s) : s \in {CODECS[i].name : i \in DOMAIN CODECS}
                        \cup {SHA3, <<"1", "7">>, <<"m", "d", "4">>}}
        \cup {IntV(n) : n \in {5, 17, 20, 153, 45576}} \cup {CallableV("sha1")}

SeqsUpTo(S, n) == UNION {[1..k -> S] : k \in 0..n}

ByteInputs == {10, 97}
CharInputs == {"a", "e'", "EUR"}

Payloads == SeqsUpTo(ByteInputs, MaxContentLen)

Contents ==
    {BytesV(b) : b \in Payloads}
        \cup {StrV(s) : s \in SeqsUpTo(CharInputs, 2)}
        \cup {StreamV(k, d, p) : k \in {"BufferedReader", "BytesIO"},
                                 d \in Payloads, p \in {0, 1}}
        \cup {IterV(c) : c \in SeqsUpTo(SeqsUpTo(ByteInputs, 1), MaxChunks)}
        \cup {NoneV}

\* a digest of n bytes
fill(n, seed) == [i \in 1..n |-> (i * 7 + seed) % 256]

\* digest and buffer lengths: the short ones, the hashlib sizes, and every
\* length from just under the limits to the bound
DigestLengths == {0, 1, 2, 16, 20, 64} \cup (MAX_DIGEST_LEN - 2)..MaxDigestLen

Digests == {fill(n, seed) : n \in DigestLengths, seed \in {0, 3}}

Buffers ==
    {<<>>} \cup {<<c>> : c \in {17, 153}}
        \cup {<<c, l>> \o fill(n, 0) :
                c \in {0, 5, 17, 20, 153, 213, 255},
                l \in {0, 1, 127, 128},
                n \in {0, 1, 2, 20} \cup (MAX_DIGEST_LEN - 2)..(MaxBufLen - 2)}
        \cup {<<c, n + d - 1>> \o fill(n, 0) :
                c \in {0, 5, 17, 20, 153, 213, 255},
                d \in {0, 1, 2},
                n \in {1, 2, 20} \cup (MAX_DIGEST_LEN - 2)..(MaxBufLen - 2)}

(* ------------------------------ state machine -------------------------- *)

Init ==
    /\ \E has_sha3 \in BOOLEAN, has_blake2 \in BOOLEAN :
        CODECS = build_codecs(has_sha3, has_blake2)
    /\ warnings = <<>>
    /\ pc = "idle"
    /\ op = "none"
    /\ args = <<>>
    /\ ret = Ok(NoneV)
    /\ resource = NoneV
    /\ updates = <<>>

Call(name, a, r, res, ups, w) ==
    /\ pc = "idle"
    /\ pc' = "returned"
    /\ op' = name
    /\ args' = a
    /\ ret' = r
    /\ resource' = res
    /\ updates' = ups
    /\ warnings' = w
    /\ UNCHANGED CODECS

GetHashFunction ==
    \E id \in Identifiers :
        Call("get_hash_function", <<id>>, get_hash_function(id), NoneV, <<>>,
             get_hash_function_warnings(id))

IsAppCode ==
    \E id \in Identifiers :
        Call("is_app_code", <<id>>, Ok(BoolV(is_app_code(id))), NoneV, <<>>, <<>>)

IsValidCode ==
    \E id \in Identifiers :
        Call("is_valid_code", <<id>>, is_valid_code(id), NoneV, <<>>,
             <<"DeprecationWarning">>)

GetCode ==
    \E id \in Identifiers :
        Call("get_code", <<id>>, get_code(id), NoneV, <<>>, <<>>)

Decode ==
    \E buf \in Buffers :
        Call("decode", <<BytesV(buf)>>, decode(buf), NoneV, <<>>, <<>>)

Encode ==
    \E content \in Contents, id \in CodecInputs :
        LET out == encode(content, id) IN
        Call("encode", <<content, id>>, out.ret, out.resource, out.updates, <<>>)

EncodeMultihash ==
    \E digest \in Digests, code \in IntInputs :
        Call("encode_multihash", <<BytesV(digest), IntV(code)>>,
             encode_multihash(digest, code), NoneV, <<>>, <<>>)

\* the caller takes the result (or the exception); the module is ready again
Return ==
    /\ pc = "returned"
    /\ pc' = "idle"
    /\ op' = "none"
    /\ args' = <<>>
    /\ ret' = Ok(NoneV)
    /\ resource' = NoneV
    /\ updates' = <<>>
    /\ warnings' = <<>>
    /\ UNCHANGED CODECS

Next ==
    \/ GetHashFunction
    \/ IsAppCode
    \/ IsValidCode
    \/ GetCode
    \/ Decode
    \/ Encode
    \/ EncodeMultihash
    \/ Return

Spec == Init /\ [][Next]_vars

(* ------------------------------ properties ----------------------------- *)

Called(name) == pc = "returned" /\ op = name

Same(r1, r2) == r1.exc = r2.exc /\ r1.val.kind = r2.val.kind /\ r1.val.v = r2.val.v

Failed(r, exc, msg) == r.exc = exc /\ r.val.kind = "str" /\ r.val.v = msg

Returned(r, kind, v) == r.exc = "none" /\ r.val.kind = kind /\ r.val.v = v

RECURSIVE Flatten(_)
Flatten(chunks) == IF Len(chunks) = 0 THEN <<>> ELSE Head(chunks) \o Flatten(Tail(chunks))

IsStream(content) == content.kind \in {"BufferedReader", "BytesIO"}

\* the bytes a content stands for: what is left of a stream, all chunks of a sequence
ContentBytes(content) ==
    CASE content.kind = "bytes" -> content.v
      [] content.kind = "str" -> utf8_encode(content.v)
      [] IsStream(content) -> SubSeq(content.v.data, content.v.pos + 1, Len(content.v.data))
      [] content.kind = "iter" -> Flatten(content.v.chunks)

\* the raw digest of a byte string under a registered name
RawDigest(name, bytes) == hash_digest(hash_update(new_hash(CODECS_BY_NAME[name]), bytes))

RegisteredCodes == {CODECS[i].code : i \in DOMAIN CODECS}
RegisteredNames == {CODECS[i].name : i \in DOMAIN CODECS}

\* C1: for every registered name and every content c, decode(encode(c, name))
\* succeeds and returns (CODES_BY_NAME[name], the raw digest of c).
C1_RoundTrip ==
    (/\ Called("encode")
     /\ args[1].kind # "NoneType"
     /\ args[2].kind = "str"
     /\ args[2].v \in RegisteredNames)
    => /\ ret.exc = "none"
       /\ Returned(decode(ret.val.v), "tuple",
                   <<CODES_BY_NAME[args[2].v], RawDigest(args[2].v, ContentBytes(args[1]))>>)

\* C2: decode(buf) returns (buf[0], buf[2:]) exactly when 3 <= len(buf) <= 129,
\* buf[0] is a registered code and buf[1] = len(buf) - 2; otherwise it fails
\* with the first failing check of: too short, too long, unknown code,
\* length mismatch.
C2_DecodeContract ==
    Called("decode") =>
        LET buf == args[1].v
            n == Len(buf)
        IN  IF n < 3 THEN Failed(ret, "ValueError", "Buffer too short")
            ELSE IF n > 129 THEN Failed(ret, "ValueError", "Buffer too long")
            ELSE IF buf[1] \notin RegisteredCodes THEN Failed(ret, "ValueError", "Invalid code")
            ELSE IF buf[2] # n - 2 THEN Failed(ret, "ValueError", "Inconsistent length")
            ELSE Returned(ret, "tuple", <<buf[1], SubSeq(buf, 3, n)>>)

\* a 129-byte envelope of a registered code was decoded
C2_Witness ==
    /\ Called("decode")
    /\ Len(args[1].v) = 129
    /\ ret.exc = "none"
    /\ Len(ret.val.v[2]) = 127

\* C3: for a one-byte code, encode_multihash fails exactly when the digest is
\* longer than 127 bytes, and otherwise returns [code, len(digest)] ++ digest.
C3_EncodeMultihashContract ==
    (Called("encode_multihash") /\ args[2].v \in 0..255) =>
        LET digest == args[1].v
            code == args[2].v
        IN  IF Len(digest) > 127
            THEN Failed(ret, "ValueError", "multihash does not support digest length > 127")
            ELSE /\ Returned(ret, "bytes", <<code, Len(digest)>> \o digest)
                 /\ Len(ret.val.v) = 2 + Len(digest)

\* a 127-byte digest was packed under the unregistered code 255
C3_Witness ==
    /\ Called("encode_multihash")
    /\ args[2].v = 255
    /\ Len(args[1].v) = 127
    /\ ret.exc = "none"

\* C4: names are unique, codes are unique, every code is one byte, and the
\* by-name and by-code views index the same entries.
C4_RegistryInvariant ==
    /\ \A i, j \in DOMAIN CODECS :
        i # j => CODECS[i].name # CODECS[j].name /\ CODECS[i].code # CODECS[j].code
    /\ \A i \in DOMAIN CODECS : CODECS[i].code \in 0..255
    /\ \A i \in DOMAIN CODECS :
        /\ CODECS_BY_NAME[CODECS[i].name] = CODECS[i].function
        /\ CODECS_BY_CODE[CODECS[i].code] = CODECS[i].function
        /\ CODES_BY_NAME[CODECS[i].name] = CODECS[i].code

\* C5: whatever get_hash_function resolves through the registry, get_code
\* resolves to the code of the same entry; encode under "sha3" resolves like
\* encode under "sha3-512".
C5_GetCodeResolvesLikeGetHashFunction ==
    /\ (/\ Called("get_code")
        /\ args[1].kind \in {"int", "str"}
        /\ get_hash_function(args[1]).exc = "none")
       => /\ ret.exc = "none"
          /\ ret.val.kind = "int"
          /\ ret.val.v \in RegisteredCodes
          /\ CODECS_BY_CODE[ret.val.v] = get_hash_function(args[1]).val.v
    /\ (Called("encode") /\ args[2].kind = "str" /\ args[2].v = SHA3)
       => Same(ret, encode(args[1], StrV(SHA3_512)).ret)

\* an int or str that names no registry entry
NamesNoEntry(id) ==
    \/ id.kind = "int" /\ id.v \notin RegisteredCodes
    \/ /\ id.kind = "str"
       /\ IF id.v = SHA3 THEN SHA3_512 \notin RegisteredNames
          ELSE /\ id.v \notin RegisteredNames
               /\ isdigit(id.v) => int(id.v) \notin RegisteredCodes

\* C6: get_hash_function fails with ValueError 'Unknown hash function' for
\* every identifier that names no registry entry.
C6_UnknownIsValueError ==
    (Called("get_hash_function") /\ NamesNoEntry(args[1]))
        => Failed(ret, "ValueError", "Unknown hash function")

\* C7: get_hash_function returns a factory in every successful branch, and a
\* callable identifier is returned unchanged.
C7_ReturnsFactory ==
    Called("get_hash_function") =>
        /\ ret.exc = "none" => ret.val.kind = "callable"
        /\ args[1].kind = "callable" => Returned(ret, "callable", args[1].v)

\* get_code and get_hash_function both accept the identifier of an encode call
Resolved(id) ==
    /\ get_code(id).exc = "none"
    /\ get_hash_function(get_code(id).val).exc = "none"

\* C8: over a stream or a lazy sequence encode ingests every chunk once and in
\* order, reads the stream to its first empty read and leaves it open, and
\* returns what encode returns for the concatenated bytes.
C8_ChunkingIndependence ==
    (Called("encode") /\ args[1].kind \in {"BufferedReader", "BytesIO", "iter"}) =>
        LET content == args[1] IN
        /\ Same(ret, encode(BytesV(ContentBytes(content)), args[2]).ret)
        /\ IsStream(content) => resource.v.closed = FALSE
        /\ Resolved(args[2]) =>
            /\ Flatten(updates) = ContentBytes(content)
            /\ IsStream(content) =>
                /\ \A i \in DOMAIN updates : Len(updates[i]) > 0
                /\ resource.v.data = content.v.data
                /\ resource.v.pos >= Len(content.v.data)
            /\ content.kind = "iter" =>
                /\ updates = content.v.chunks
                /\ resource.v.next = Len(content.v.chunks) + 1

\* a stream longer than one read was hashed in several chunks
C8_Witness ==
    /\ Called("encode")
    /\ args[1].kind = "BufferedReader"
    /\ Len(updates) >= 2
    /\ ret.exc = "none"

\* C9 as stated: every envelope encode_multihash returns for a code get_code
\* accepts and a digest of 0 to 127 bytes is decoded to that (code, digest).
C9_Original ==
    (/\ Called("encode_multihash")
     /\ get_code(args[2]).exc = "none"
     /\ Len(args[1].v) <= 127
     /\ ret.exc = "none")
    => Returned(decode(ret.val.v), "tuple", <<args[2].v, args[1].v>>)

\* C9 amended: every envelope encode_multihash returns for a registered code
\* (a key of CODECS_BY_CODE) and a digest of 1 to 127 bytes is decoded to that
\* (code, digest).
C9_RegisteredRoundTrip ==
    (/\ Called("encode_multihash")
     /\ args[2].v \in RegisteredCodes
     /\ Len(args[1].v) >= 1
     /\ Len(args[1].v) <= 127
     /\ ret.exc = "none")
    => Returned(decode(ret.val.v), "tuple", <<args[2].v, args[1].v>>)

\* a 127-byte digest was packed under the registered code 17
C9_Witness ==
    /\ Called("encode_multihash")
    /\ args[2].v = 17
    /\ Len(args[1].v) = 127
    /\ ret.exc = "none"
    /\ decode(ret.val.v).exc = "none"

\* C10: is_valid_code returns True for whatever get_code accepts and False,
\* without raising, for whatever it rejects.
C10_IsValidCodeAgrees ==
    Called("is_valid_code") =>
        Returned(ret, "bool", get_code(args[1]).exc = "none")

====
